---- MODULE Spec2Model ----
(***************************************************************************)
(* Credential-management core of the construction-manager backend:         *)
(*   service/createUser.ts   createUser                                    *)
(*   repository/users.ts     UserRepository (saveUser, findById,           *)
(*                           findByEmail, userToTableRow, tableRowToUser)  *)
(*   database/migrations     the users table and its constraints           *)
(* Every await of the code is one step of the invocation that runs it; a   *)
(* statement sent to the store takes effect atomically at its step.        *)
(***************************************************************************)
EXTENDS Integers, Sequences, FiniteSets, TLC

VARIABLES users, proc

vars == <<users, proc>>

(* ------------------------------ bounds -------------------------------- *)

\* Number of invocations (createUser, saveUser, findById, findByEmail) in a run.
MaxInv == 2

\* Number of rows the users table holds when the run starts.
MaxInitRows == 1

Procs == 1 .. MaxInv

EmailList == <<"a@x.com", "b@x.com">>

Emails == {EmailList[i] : i \in 1 .. Len(EmailList)}

Passwords == {"Secret123", "Alexa123"}

\* Identifiers a direct caller of saveUser / findById brings along itself.
CallerIds == {"id-ext"}

\* The absent value: null / undefined of the code.
Null == [nil |-> TRUE]

(* --------------------------- password hashing ------------------------- *)

\* A fresh salt per hashing call.
Salt(p) == "s" \o ToString(p)

\* hashPassword: salted one-way transform; the salt is embedded in the output.
hashPassword(password, salt) == "$argon2id$" \o salt \o "$H(" \o password \o ")"

\* Hashes a direct caller of saveUser passes in a User.
CallerHashes == {hashPassword("Secret123", "s0")}

\* randomUUID(): an identifier no other invocation generates.
randomUUID(p) == "uuid-" \o ToString(p)

(* ------------------------------ errors -------------------------------- *)

\* new Error(message) raised at a place of the code (origin).
NewError(origin, message) == [origin |-> origin, message |-> message]

EmailAlreadyExists == NewError("saveUser", <<"Email already exists">>)

FailedToCreateUser == NewError("createUser", <<"Failed to create user">>)

\* The hashing primitive could not complete.
HashingFailure == NewError("hashPassword", <<"hashing failed">>)

\* String.prototype.includes on token sequences: pat is a contiguous part of msg.
Includes(msg, pat) ==
  \E i \in 1 .. (Len(msg) - Len(pat) + 1) : SubSeq(msg, i, i + Len(pat) - 1) = pat

\* The text saveUser looks for in the driver's message.
ExpectedDuplicateMessage ==
  << "insert into", "users", "(",
     "email", "id", "password_hash", "phone_number", "username",
     ")", "values", "(", "$1", "$2", "$3", "$4", "$5", ")",
     "-", "duplicate key value violates unique constraint", "users_email_unique" >>

(* ---------------------------- users table ----------------------------- *)

\* Column names in the order the query builder writes them (alphabetical).
ColumnOrder == <<"email", "id", "passwordHash", "password_hash", "phone_number", "username">>

Columns(row) == SelectSeq(ColumnOrder, LAMBDA c : c \in DOMAIN row)

Placeholders(n) == [i \in 1 .. n |-> "$" \o ToString(i)]

\* The driver's message for a rejected insert: "<sql> - <detail>".
InsertErrorMessage(row, constraint) ==
  <<"insert into", "users", "(">> \o Columns(row) \o <<")", "values", "(">>
    \o Placeholders(Len(Columns(row)))
    \o <<")", "-", "duplicate key value violates unique constraint", constraint>>

\* The driver's message for a rejected update.
UpdateErrorMessage(row, constraint) ==
  <<"update", "users", "set">> \o Columns(row) \o <<"where", "id", "-",
    "duplicate key value violates unique constraint", constraint>>

DriverError(message) == NewError("driver", message)

\* Any storage failure that is no constraint violation.
ConnectionError == DriverError(<<"connect ECONNREFUSED">>)

\* userToTableRow: the columns saveUser writes.
userToTableRow(register) ==
  [id |-> register.id, email |-> register.email, passwordHash |-> register.passwordHash]

\* Variant: the hash is read from a column the row does not have (password_hash).
tableRowToUserSnake(row) ==
  [id |-> row.id, email |-> row.email, passwordHash |-> "undefined"]

\* tableRowToUser: the fields a reader gets.
tableRowToUser(row) ==
  [id |-> row.id, email |-> row.email, passwordHash |-> row.passwordHash]

\* A stored row: the written columns plus the store's timestamps.
StoredRow(row) ==
  [id |-> row.id, email |-> row.email, passwordHash |-> row.passwordHash,
   created_at |-> "now", updated_at |-> "now"]

\* Variant: the users table was created without unique() on email.
InsertViolationsNoUnique(table, row) ==
  {c \in {"users_pkey"} : \E r \in table : r.id = row.id}

RowsOfId(table, id) == {r \in table : r.id = id}

\* Constraints of the users table an insert of row would violate.
InsertViolations(table, row) ==
  {c \in {"users_pkey", "users_email_unique"} :
     \/ c = "users_pkey" /\ \E r \in table : r.id = row.id
     \/ c = "users_email_unique" /\ \E r \in table : r.email = row.email}

\* db('users').insert(row): the outcomes the store can produce.
DbInsert(table, row) ==
  {[ok |-> FALSE, table |-> table, err |-> ConnectionError]}
  \cup IF InsertViolations(table, row) = {}
       THEN {[ok |-> TRUE, table |-> table \cup {StoredRow(row)}, err |-> Null]}
       ELSE {[ok |-> FALSE, table |-> table,
              err |-> DriverError(InsertErrorMessage(row, c))] :
               c \in InsertViolations(table, row)}

\* Constraints an update of the rows with this id to row would violate.
UpdateViolations(table, id, row) ==
  IF \E t \in table : t.id = id
  THEN {c \in {"users_pkey", "users_email_unique"} :
          \/ c = "users_pkey" /\ \E r \in table : r.id # id /\ r.id = row.id
          \/ c = "users_email_unique" /\ \E r \in table : r.id # id /\ r.email = row.email}
  ELSE {}

\* db('users').where({id}).update(row)
DbUpdate(table, id, row) ==
  {[ok |-> FALSE, table |-> table, err |-> ConnectionError]}
  \cup IF UpdateViolations(table, id, row) = {}
       THEN {[ok |-> TRUE,
              table |-> {t \in table : t.id # id}
                        \cup {[t EXCEPT !.id = row.id, !.email = row.email,
                                        !.passwordHash = row.passwordHash] :
                                t \in {t \in table : t.id = id}},
              err |-> Null]}
       ELSE {[ok |-> FALSE, table |-> table,
              err |-> DriverError(UpdateErrorMessage(row, c))] :
               c \in UpdateViolations(table, id, row)}

\* db('users').where(cond).first(): a matching row, or undefined.
DbFirst(table, column, value) ==
  {[ok |-> FALSE, row |-> Null, err |-> ConnectionError]}
  \cup IF \E r \in table : r[column] = value
       THEN {[ok |-> TRUE, row |-> r, err |-> Null] : r \in {t \in table : t[column] = value}}
       ELSE {[ok |-> TRUE, row |-> Null, err |-> Null]}

TypeError == NewError("tableRowToUser", <<"Cannot read properties of undefined">>)

\* Variant: the `if (!user) return null` is missing, the row is converted blindly.
FindReturnNoNullCheck(out) ==
  IF ~out.ok THEN [ok |-> FALSE, value |-> Null, err |-> out.err]
  ELSE IF out.row = Null THEN [ok |-> FALSE, value |-> Null, err |-> TypeError]
  ELSE [ok |-> TRUE, value |-> tableRowToUser(out.row), err |-> Null]

\* The end of findById / findByEmail: the store's error is thrown on; null when
\* no row came back; else the row as a User.
FindReturn(out) ==
  IF ~out.ok THEN [ok |-> FALSE, value |-> Null, err |-> out.err]
  ELSE IF out.row = Null THEN [ok |-> TRUE, value |-> Null, err |-> Null]
  ELSE [ok |-> TRUE, value |-> tableRowToUser(out.row), err |-> Null]

findById(table, id) == {FindReturn(out) : out \in DbFirst(table, "id", id)}

findByEmail(table, email) ==
  {FindReturn(out) : out \in DbFirst(table, "email", email)}

(* --------------------------- invocations ------------------------------ *)

\* An invocation: its operation and position, its arguments (params, user, key),
\* the identifier it works on, what the store threw at it (dbErr), what it threw
\* (error) or returned (result), the steps it took (log), and the createUser
\* invocations that had returned a User when it was called (prior).
Idle ==
  [op |-> "none", pc |-> "idle", params |-> Null, user |-> Null, key |-> "",
   id |-> "", existing |-> Null, dbErr |-> Null, error |-> Null, result |-> Null,
   log |-> <<>>, prior |-> {}]

\* Rows earlier requests left in the table: row k has its own id and the k-th
\* email (emails are interchangeable), so the rows satisfy the table's constraints.
InitialRow(k, email) ==
  StoredRow([id |-> "id-old" \o ToString(k), email |-> email,
             passwordHash |-> hashPassword("Secret123", "s0")])

InitialTablesOf(n) ==
  IF n > Len(EmailList) THEN {} ELSE {{InitialRow(k, EmailList[k]) : k \in 1 .. n}}

InitialTables == UNION {InitialTablesOf(n) : n \in 0 .. MaxInitRows}

Init ==
  /\ users \in InitialTables
  /\ proc = [p \in Procs |-> Idle]

\* Invocations are numbered in the order they are called.
NextToCall(p) ==
  /\ proc[p].pc = "idle"
  /\ \A q \in Procs : q < p => proc[q].pc # "idle"

Finished(p) == proc[p].pc \in {"done", "failed"}

\* Identifiers known outside the core: a caller's own, and those of stored rows.
KnownIds == CallerIds \cup {r.id : r \in users}

(* ----------------------------- createUser ----------------------------- *)

Returned == {q \in Procs : proc[q].op = "createUser" /\ proc[q].pc = "done"}

\* createUser(params) is called: randomUUID() runs, hashPassword is awaited.
CallCreateUser(p, email, password) ==
  /\ NextToCall(p)
  /\ proc' = [proc EXCEPT ![p] =
       [Idle EXCEPT !.op = "createUser", !.pc = "hash",
                    !.params = [email |-> email, password |-> password],
                    !.id = randomUUID(p), !.prior = Returned]]
  /\ UNCHANGED users

\* Variant: the intent carries params.password instead of the hash.
createUserIntentPlaintext(id, params, passwordHash) ==
  [id |-> id, email |-> params.email, passwordHash |-> params.password]

\* The record createUser hands to saveUser.
createUserIntent(id, params, passwordHash) ==
  [id |-> id, email |-> params.email, passwordHash |-> passwordHash]

\* Variant: saveUser is not awaited, the read-back is issued right after the hash.
HashPasswordNoAwaitSave(p) ==
  /\ proc[p].pc = "hash"
  /\ proc' = [proc EXCEPT ![p].pc = "readback",
                           ![p].log = Append(@, "hash"),
                           ![p].user = [id |-> proc[p].id, email |-> proc[p].params.email,
                                        passwordHash |->
                                          hashPassword(proc[p].params.password, Salt(p))]]
  /\ UNCHANGED users

\* Variant: a failure of the hash is caught and thrown as createUser's own error.
HashPasswordWrapsError(p) ==
  /\ proc[p].pc = "hash"
  /\ \/ proc' = [proc EXCEPT ![p].pc = "save_find",
                              ![p].log = Append(@, "hash"),
                              ![p].user = createUserIntent(proc[p].id, proc[p].params,
                                            hashPassword(proc[p].params.password, Salt(p)))]
     \/ proc' = [proc EXCEPT ![p].pc = "failed",
                              ![p].log = Append(@, "hash"),
                              ![p].error = FailedToCreateUser]
  /\ UNCHANGED users

\* Variant: the password goes into the intent without being hashed.
HashPasswordSkipped(p) ==
  /\ proc[p].pc = "hash"
  /\ proc' = [proc EXCEPT ![p].pc = "save_find",
                           ![p].log = Append(@, "hash"),
                           ![p].user = createUserIntent(proc[p].id, proc[p].params,
                                                        proc[p].params.password)]
  /\ UNCHANGED users

\* await hashPassword(params.password) settles; on success saveUser is called.
HashPassword(p) ==
  /\ proc[p].pc = "hash"
  /\ \/ proc' = [proc EXCEPT ![p].pc = "save_find",
                              ![p].log = Append(@, "hash"),
                              ![p].user = createUserIntent(proc[p].id, proc[p].params,
                                            hashPassword(proc[p].params.password, Salt(p)))]
     \/ proc' = [proc EXCEPT ![p].pc = "failed",
                              ![p].log = Append(@, "hash"),
                              ![p].error = HashingFailure]
  /\ UNCHANGED users

\* Where an invocation goes when saveUser has returned.
AfterSave(p) == IF proc[p].op = "createUser" THEN "readback" ELSE "done"

\* Variant: a null read-back is papered over with the intent that was saved.
ReadBackOrIntent(p) ==
  /\ proc[p].pc = "readback"
  /\ \E out \in findById(users, proc[p].id) :
       proc' = [proc EXCEPT
         ![p].log = Append(@, "readback"),
         ![p].pc = IF out.ok THEN "done" ELSE "failed",
         ![p].dbErr = out.err,
         ![p].error = out.err,
         ![p].result = IF out.ok /\ out.value = Null THEN proc[p].user ELSE out.value]
  /\ UNCHANGED users

\* createUser: await findById(id); throw when null, else return the row read.
ReadBack(p) ==
  /\ proc[p].pc = "readback"
  /\ \E out \in findById(users, proc[p].id) :
       proc' = [proc EXCEPT
         ![p].log = Append(@, "readback"),
         ![p].pc = IF out.ok /\ out.value # Null THEN "done" ELSE "failed",
         ![p].dbErr = out.err,
         ![p].error = IF ~out.ok THEN out.err
                      ELSE IF out.value = Null THEN FailedToCreateUser ELSE Null,
         ![p].result = out.value]
  /\ UNCHANGED users

(* ------------------------------ saveUser ------------------------------ *)

\* Users a direct caller of saveUser can pass.
CallerUsers ==
  {[id |-> i, email |-> e, passwordHash |-> h] :
     i \in KnownIds, e \in Emails, h \in CallerHashes}

\* saveUser(user) is called from outside createUser.
CallSaveUser(p, user) ==
  /\ NextToCall(p)
  /\ proc' = [proc EXCEPT ![p] =
       [Idle EXCEPT !.op = "saveUser", !.pc = "save_find",
                    !.user = user, !.id = user.id]]
  /\ UNCHANGED users

\* saveUser: existingUser = await this.findById(user.id); choose the branch.
SaveFindById(p) ==
  /\ proc[p].pc = "save_find"
  /\ \E out \in findById(users, proc[p].user.id) :
       proc' = [proc EXCEPT
         ![p].log = Append(@, "findById"),
         ![p].existing = out.value,
         ![p].dbErr = out.err,
         ![p].error = out.err,
         ![p].pc = IF ~out.ok THEN "failed"
                   ELSE IF out.value # Null THEN "save_update" ELSE "save_insert"]
  /\ UNCHANGED users

\* Variant: the update writes the email only.
SaveUpdateEmailOnly(p) ==
  /\ proc[p].pc = "save_update"
  /\ \E out \in DbUpdate(users, proc[p].user.id,
                         [userToTableRow(proc[p].user) EXCEPT
                            !.passwordHash = proc[p].existing.passwordHash]) :
       /\ users' = out.table
       /\ proc' = [proc EXCEPT
            ![p].log = Append(@, "update"),
            ![p].dbErr = out.err,
            ![p].error = out.err,
            ![p].pc = IF out.ok THEN AfterSave(p) ELSE "failed"]

\* saveUser: the update of the existing row; an error of the store is not caught.
SaveUpdate(p) ==
  /\ proc[p].pc = "save_update"
  /\ \E out \in DbUpdate(users, proc[p].user.id, userToTableRow(proc[p].user)) :
       /\ users' = out.table
       /\ proc' = [proc EXCEPT
            ![p].log = Append(@, "update"),
            ![p].dbErr = out.err,
            ![p].error = out.err,
            ![p].pc = IF out.ok THEN AfterSave(p) ELSE "failed"]

\* Variant: the catch turns every error of the insert into 'Email already exists'.
TranslateInsertErrorAll(err) == EmailAlreadyExists

\* saveUser's catch: the email-uniqueness message is translated, any other
\* error is thrown again as it is.
TranslateInsertError(err) ==
  IF Includes(err.message, ExpectedDuplicateMessage) THEN EmailAlreadyExists ELSE err

\* Variant: the row is written first and the email checked afterwards.
SaveInsertThenCheck(p) ==
  /\ proc[p].pc = "save_insert"
  /\ LET row == userToTableRow(proc[p].user)
         taken == \E r \in users : r.email = row.email
     IN /\ RowsOfId(users, row.id) = {}
        /\ users' = users \cup {StoredRow(row)}
        /\ proc' = [proc EXCEPT
             ![p].log = Append(@, "insert"),
             ![p].error = IF taken THEN EmailAlreadyExists ELSE Null,
             ![p].pc = IF taken THEN "failed" ELSE AfterSave(p)]

\* Variant: the insert is an upsert on email (onConflict('email').merge()).
SaveInsertMerge(p) ==
  /\ proc[p].pc = "save_insert"
  /\ LET row == userToTableRow(proc[p].user) IN
     /\ RowsOfId(users, row.id) = {}
     /\ users' = {r \in users : r.email # row.email} \cup {StoredRow(row)}
     /\ proc' = [proc EXCEPT ![p].log = Append(@, "insert"),
                              ![p].pc = AfterSave(p)]

\* Variant: a rejected insert is tried again.
SaveInsertRetry(p) ==
  /\ proc[p].pc = "save_insert"
  /\ \E out \in DbInsert(users, userToTableRow(proc[p].user)) :
       /\ users' = out.table
       /\ proc' = [proc EXCEPT
            ![p].log = Append(@, "insert"),
            ![p].dbErr = out.err,
            ![p].error = IF out.ok THEN Null ELSE TranslateInsertError(out.err),
            ![p].pc = IF out.ok THEN AfterSave(p) ELSE "save_insert"]

\* Variant: the catch swallows the error of the insert and saveUser returns.
SaveInsertSwallow(p) ==
  /\ proc[p].pc = "save_insert"
  /\ \E out \in DbInsert(users, userToTableRow(proc[p].user)) :
       /\ users' = out.table
       /\ proc' = [proc EXCEPT
            ![p].log = Append(@, "insert"),
            ![p].dbErr = out.err,
            ![p].pc = AfterSave(p)]

\* saveUser: the insert of a new row, inside the try.
SaveInsert(p) ==
  /\ proc[p].pc = "save_insert"
  /\ \E out \in DbInsert(users, userToTableRow(proc[p].user)) :
       /\ users' = out.table
       /\ proc' = [proc EXCEPT
            ![p].log = Append(@, "insert"),
            ![p].dbErr = out.err,
            ![p].error = IF out.ok THEN Null ELSE TranslateInsertError(out.err),
            ![p].pc = IF out.ok THEN AfterSave(p) ELSE "failed"]

(* ------------------------------ readers ------------------------------- *)

\* Variant: findById stamps the row it reads.
FindByIdTouch(p, id) ==
  /\ NextToCall(p)
  /\ \E out \in findById(users, id) :
       proc' = [proc EXCEPT ![p] =
         [Idle EXCEPT !.op = "findById", !.key = id, !.id = id,
                      !.log = <<"findById">>,
                      !.pc = IF out.ok THEN "done" ELSE "failed",
                      !.dbErr = out.err, !.error = out.err,
                      !.result = out.value]]
  /\ users' = {IF r.id = id THEN [r EXCEPT !.updated_at = "later"] ELSE r : r \in users}

\* findById(id) called from outside: one query, null when no row matches.
FindById(p, id) ==
  /\ NextToCall(p)
  /\ \E out \in findById(users, id) :
       proc' = [proc EXCEPT ![p] =
         [Idle EXCEPT !.op = "findById", !.key = id, !.id = id,
                      !.log = <<"findById">>,
                      !.pc = IF out.ok THEN "done" ELSE "failed",
                      !.dbErr = out.err, !.error = out.err,
                      !.result = out.value]]
  /\ UNCHANGED users

\* findByEmail(email) called from outside.
FindByEmail(p, email) ==
  /\ NextToCall(p)
  /\ \E out \in findByEmail(users, email) :
       proc' = [proc EXCEPT ![p] =
         [Idle EXCEPT !.op = "findByEmail", !.key = email,
                      !.log = <<"findByEmail">>,
                      !.pc = IF out.ok THEN "done" ELSE "failed",
                      !.dbErr = out.err, !.error = out.err,
                      !.result = out.value]]
  /\ UNCHANGED users

(* --------------------------- specification ---------------------------- *)

Next ==
  \E p \in Procs :
    \/ \E e \in Emails, pw \in Passwords : CallCreateUser(p, e, pw)
    \/ HashPassword(p)
    \/ \E u \in CallerUsers : CallSaveUser(p, u)
    \/ SaveFindById(p)
    \/ SaveUpdate(p)
    \/ SaveInsert(p)
    \/ ReadBack(p)
    \/ \E i \in KnownIds : FindById(p, i)
    \/ \E e \in Emails : FindByEmail(p, e)

Spec == Init /\ [][Next]_vars

(* ------------------------- the store is shared ------------------------ *)

\* Another client of the shared store removes a row a createUser has written
\* and not yet read back.
ExternalDelete(r) ==
  /\ r \in users
  /\ \E p \in Procs : proc[p].pc = "readback" /\ proc[p].id = r.id
  /\ users' = users \ {r}
  /\ UNCHANGED proc

NextShared ==
  \/ Next
  \/ \E r \in users : ExternalDelete(r)

\* The core next to other clients of the store, which it does not own.
SpecShared == Init /\ [][NextShared]_vars

(* ---------------------- vocabulary of the properties ------------------ *)

Last(s) == s[Len(s)]

\* The store rejected a write for the uniqueness constraint on email.
IsEmailViolation(err) ==
  /\ err # Null
  /\ err.origin = "driver"
  /\ Includes(err.message,
       <<"duplicate key value violates unique constraint", "users_email_unique">>)

\* The invocation was hit by an outage: of the hashing primitive or of the store.
Faulted(p) == proc[p].error = HashingFailure \/ proc[p].dbErr = ConnectionError

\* No invocation of this run is a direct saveUser call.
NoSaveUserCalls == \A r \in Procs : proc[r].op # "saveUser"

RowsWithEmail(e) == {r \in users : r.email = e}

RowsWithId(i) == {r \in users : r.id = i}

CreateCalls == {p \in Procs : proc[p].op = "createUser"}

(* ------------------------------- C1 ----------------------------------- *)

\* C1: when createUser(e, p1) has returned a User and createUser(e, p2) is then
\* called (no outage, no other writer), the second call fails with the domain
\* error 'Email already exists' and the table holds exactly one row with email e.
C1_SecondCreateFailsDuplicateEmail ==
  \A p, q \in CreateCalls :
    ( /\ p \in proc[q].prior
      /\ proc[p].params.email = proc[q].params.email
      /\ Finished(q) /\ ~Faulted(q)
      /\ NoSaveUserCalls )
    => /\ proc[q].pc = "failed"
       /\ proc[q].error = EmailAlreadyExists
       /\ Cardinality(RowsWithEmail(proc[q].params.email)) = 1

(* ------------------------------- C2 ----------------------------------- *)

\* createUser invocations racing for email e: none had returned when another
\* was called, and e is held by no row that is not theirs.
Racing(S, e) ==
  /\ Cardinality(S) >= 2
  /\ \A p \in S : proc[p].prior \cap S = {}
  /\ \A r \in RowsWithEmail(e) : r.id \in {proc[p].id : p \in S}

\* C2: of the createUser invocations that race for one email (no outage, no
\* other writer), once all have finished exactly one has returned a User, every
\* other one has failed with 'Email already exists', and the row with that email
\* is the winner's, as the winner wrote it.
C2_OneWinnerOthersDuplicateEmail ==
  \A e \in Emails :
    LET S == {p \in CreateCalls : proc[p].params.email = e} IN
    ( /\ Racing(S, e)
      /\ \A p \in S : Finished(p) /\ ~Faulted(p)
      /\ NoSaveUserCalls )
    => \E w \in S :
         /\ proc[w].pc = "done"
         /\ \A l \in S \ {w} :
              proc[l].pc = "failed" /\ proc[l].error = EmailAlreadyExists
         /\ RowsWithEmail(e) = {StoredRow(proc[w].user)}

(* ------------------------------- C3 ----------------------------------- *)

\* C3: in every reachable state no two rows of the users table have the same
\* id and no two rows have the same email.
C3_UniqueIdAndEmail ==
  \A r1, r2 \in users : (r1.id = r2.id \/ r1.email = r2.email) => r1 = r2

\* The table holds two rows and has turned a write down for a constraint.
C3_Witness ==
  /\ Cardinality(users) >= 2
  /\ \E p \in Procs :
       /\ proc[p].pc = "failed"
       /\ proc[p].dbErr # Null /\ proc[p].dbErr # ConnectionError

(* ------------------------------- C4 ----------------------------------- *)

\* No direct saveUser call works on the row of invocation p.
NoOtherWriter(p) == \A r \in Procs : proc[r].op = "saveUser" => proc[r].id # proc[p].id

C5_InsertConflictIsDuplicateEmail ==
  \A p \in Procs :
    ( /\ proc[p].pc = "failed"
      /\ proc[p].log # <<>> /\ Last(proc[p].log) = "insert"
      /\ RowsWithId(proc[p].id) = {}
      /\ IsEmailViolation(proc[p].dbErr) )
    => proc[p].error = EmailAlreadyExists

(* ------------------------------- C6 ----------------------------------- *)

\* Invocation p takes the step it is waiting at.
Steps(p, pc) == proc[p].pc = pc /\ proc'[p].pc # pc

\* findById on the table as the step leaves it.
FoundAfter(i) == findById(users', i)

\* C6: a saveUser(u) whose id is in a row takes the update branch, and when no
\* other row holds u.email its update leaves exactly one row with that id, adds
\* no row, and findById(u.id) then returns u.email and u.passwordHash (an outage
\* of the store apart, which leaves the table as it was).
C6_UpdateInPlace ==
  [][\A p \in Procs :
       /\ (Steps(p, "save_find") /\ RowsWithId(proc[p].user.id) # {})
            => proc'[p].pc = "save_update" \/ proc'[p].error = ConnectionError
       /\ ( /\ Steps(p, "save_update")
            /\ RowsWithId(proc[p].user.id) # {}
            /\ ~\E r \in users : r.id # proc[p].user.id /\ r.email = proc[p].user.email )
            => \/ proc'[p].error = ConnectionError /\ users' = users
               \/ /\ proc'[p].pc = AfterSave(p)
                  /\ proc'[p].error = Null
                  /\ Cardinality({r \in users' : r.id = proc[p].user.id}) = 1
                  /\ Cardinality(users') = Cardinality(users)
                  /\ \A out \in FoundAfter(proc[p].user.id) :
                       out.ok => /\ out.value # Null
                                 /\ out.value.email = proc[p].user.email
                                 /\ out.value.passwordHash = proc[p].user.passwordHash
    ]_vars

\* A saveUser has updated a row to a new email and a new passwordHash.
C6_Witness ==
  \E p \in Procs :
    /\ proc[p].op = "saveUser" /\ proc[p].pc = "done"
    /\ Last(proc[p].log) = "update"
    /\ proc[p].existing.email # proc[p].user.email
    /\ proc[p].existing.passwordHash # proc[p].user.passwordHash
    /\ StoredRow(proc[p].user) \in users

(* ------------------------------- C7 ----------------------------------- *)

\* The key of a reader matches no row.
Absent(op, key) ==
  IF op = "findById" THEN RowsWithId(key) = {} ELSE RowsWithEmail(key) = {}

\* C7: findById on an id in no row and findByEmail on an email in no row return
\* null and raise nothing (an outage of the store apart); the findById inside
\* saveUser does the same.
C7_AbsentKeyReturnsNull ==
  [][\A p \in Procs :
       /\ ( /\ proc[p].pc = "idle"
            /\ proc'[p].op \in {"findById", "findByEmail"}
            /\ Absent(proc'[p].op, proc'[p].key) )
            => \/ proc'[p].error = ConnectionError
               \/ /\ proc'[p].pc = "done"
                  /\ proc'[p].result = Null
                  /\ proc'[p].error = Null
       /\ (Steps(p, "save_find") /\ RowsWithId(proc[p].user.id) = {})
            => \/ proc'[p].error = ConnectionError
               \/ proc'[p].existing = Null /\ proc'[p].error = Null
    ]_vars

\* A findById and a findByEmail have each returned null for a key in no row.
C7_Witness ==
  \E p, q \in Procs :
    /\ proc[p].op = "findById" /\ proc[q].op = "findByEmail"
    /\ proc[p].pc = "done" /\ proc[q].pc = "done"
    /\ proc[p].result = Null /\ proc[q].result = Null
    /\ Absent("findById", proc[p].key) /\ Absent("findByEmail", proc[q].key)

(* ------------------------------- C8 ----------------------------------- *)

WriteFailed(p) ==
  /\ proc[p].pc = "failed"
  /\ proc[p].log # <<>> /\ Last(proc[p].log) \in {"insert", "update"}
  /\ proc[p].dbErr # Null

\* C8: when the store turns the write of saveUser down for anything but the
\* uniqueness of email, saveUser, and createUser around it, fail with the very
\* error the store threw.
C8_OtherFailuresPropagate ==
  \A p \in Procs :
    (WriteFailed(p) /\ ~IsEmailViolation(proc[p].dbErr))
      => proc[p].error = proc[p].dbErr

\* A createUser has failed with the store's outage error thrown at its insert.
C8_Witness ==
  \E p \in CreateCalls :
    /\ WriteFailed(p) /\ Last(proc[p].log) = "insert"
    /\ proc[p].dbErr = ConnectionError /\ proc[p].error = ConnectionError

(* ------------------------------- C9 ----------------------------------- *)

\* createUser p failed because its email was taken: with the domain error, or
\* with the store's error for the uniqueness of email.
FailedForDuplicateEmail(p) ==
  /\ proc[p].op = "createUser" /\ proc[p].pc = "failed"
  /\ proc[p].error = EmailAlreadyExists \/ IsEmailViolation(proc[p].dbErr)

\* C9: from the moment a createUser fails because its email is taken, no row of
\* the table has the identifier that invocation generated.
C9_NoRowAfterDuplicateFailure ==
  \A p \in Procs : FailedForDuplicateEmail(p) => RowsWithId(proc[p].id) = {}

\* A createUser has failed because its email is taken, and the run went on.
C9_Witness ==
  \E p, q \in Procs :
    /\ FailedForDuplicateEmail(p)
    /\ p < q /\ Finished(q)

(* ------------------------------- C10 ---------------------------------- *)

StoreSteps == {"findById", "insert", "update"}

\* C10: in every createUser, saveUser's statements come after the completed
\* hash (the intent holds the hash when saveUser runs), and the read-back comes
\* after the completed write (the row is in the table when it is issued).
C10_HashThenWriteThenReadBack ==
  \A p \in CreateCalls :
    LET log == proc[p].log IN
    /\ \A i \in 1 .. Len(log) :
         /\ log[i] \in StoreSteps => \E j \in 1 .. (i - 1) : log[j] = "hash"
         /\ log[i] = "readback" => \E j \in 1 .. (i - 1) : log[j] \in {"insert", "update"}
    /\ proc[p].pc \in {"save_find", "save_insert", "save_update"} =>
         /\ proc[p].user # Null
         /\ proc[p].user.passwordHash = hashPassword(proc[p].params.password, Salt(p))
    /\ proc[p].pc = "readback" =>
         /\ Last(log) \in {"insert", "update"}
         /\ RowsWithId(proc[p].id) # {}

\* A createUser waits at its read-back while another is between hash and write.
C10_Witness ==
  \E p, q \in CreateCalls :
    /\ proc[p].pc = "readback"
    /\ proc[q].pc = "save_insert"

(* ------------------------------- C11 ---------------------------------- *)

\* C11: when the read-back of a createUser finds no row with its identifier
\* (saveUser had returned), createUser fails with 'Failed to create user' and
\* returns no User (an outage of the store apart); it returns a User only when
\* the read-back found a row, and then that row.
C11_NullReadBackFails ==
  [][\A p \in Procs :
       Steps(p, "readback") =>
         /\ RowsWithId(proc[p].id) = {} =>
              \/ proc'[p].error = ConnectionError /\ proc'[p].pc = "failed"
              \/ /\ proc'[p].pc = "failed"
                 /\ proc'[p].error = FailedToCreateUser
                 /\ proc'[p].result = Null
         /\ proc'[p].pc = "done" =>
              /\ proc'[p].error = Null
              /\ \E r \in RowsWithId(proc[p].id) : proc'[p].result = tableRowToUser(r)
    ]_vars

\* A createUser whose saveUser returned has failed with 'Failed to create user'.
C11_Witness ==
  \E p \in CreateCalls :
    /\ proc[p].pc = "failed"
    /\ proc[p].error = FailedToCreateUser
    /\ proc[p].result = Null
    /\ proc[p].log = <<"hash", "findById", "insert", "readback">>

(* ------------------------------- C12 ---------------------------------- *)

\* C12: when saveUser's update of an existing row is turned down because another
\* row holds the email, saveUser fails with the domain error 'Email already
\* exists', as on the insert path.
C12_UpdateConflictIsDuplicateEmail ==
  \A p \in Procs :
    ( /\ proc[p].pc = "failed"
      /\ proc[p].log # <<>> /\ Last(proc[p].log) = "update"
      /\ IsEmailViolation(proc[p].dbErr) )
    => proc[p].error = EmailAlreadyExists

(* ------------------------------- C13 ---------------------------------- *)

Writes == {"insert", "update"}

\* How many steps of the given kinds the log holds.
Count(log, kinds) == Cardinality({i \in 1 .. Len(log) : log[i] \in kinds})

\* C13: a createUser runs at most one hash, one write statement and one
\* read-back; while a write statement is pending none has been issued before,
\* and a createUser whose write failed has stopped right there.
C13_NoRetry ==
  \A p \in CreateCalls :
    LET log == proc[p].log IN
    /\ Count(log, {"hash"}) <= 1
    /\ Count(log, Writes) <= 1
    /\ Count(log, {"readback"}) <= 1
    /\ proc[p].pc \in {"save_insert", "save_update"} => Count(log, Writes) = 0
    /\ (Count(log, Writes) = 1 /\ Count(log, {"readback"}) = 0 /\ proc[p].dbErr # Null)
         => proc[p].pc = "failed" /\ Last(log) \in Writes

\* A createUser's insert was rejected, and another invocation ran after it.
C13_Witness ==
  \E p \in CreateCalls, q \in Procs :
    /\ WriteFailed(p)
    /\ proc[p].log = <<"hash", "findById", "insert">>
    /\ p < q /\ Finished(q)

(* ------------------------------- C14 ---------------------------------- *)

\* C14: the row a createUser has written (no direct saveUser call writing to it
\* since) holds the hash hashPassword made of that invocation's password, and
\* none of its columns holds the password itself.
C14_RowsHoldHashes ==
  \A p \in CreateCalls :
    NoOtherWriter(p) =>
      \A r \in RowsWithId(proc[p].id) :
        /\ r.passwordHash = hashPassword(proc[p].params.password, Salt(p))
        /\ \A c \in DOMAIN r : r[c] # proc[p].params.password

\* Two createUser invocations have each written a row.
C14_Witness ==
  \E p, q \in CreateCalls :
    /\ p # q
    /\ RowsWithId(proc[p].id) # {} /\ RowsWithId(proc[q].id) # {}
    /\ NoOtherWriter(p) /\ NoOtherWriter(q)

(* ------------------------------- C15 ---------------------------------- *)

\* The invocation has run a write statement and the store accepted it.
WriteSucceeded(q) ==
  /\ Count(proc[q].log, Writes) >= 1
  /\ ~(proc[q].pc = "failed" /\ Last(proc[q].log) \in Writes)

\* The users whose write the store has accepted, in this run or before it.
WrittenUsers ==
  {proc[q].user : q \in {q \in Procs : WriteSucceeded(q)}}
  \cup {[id |-> "id-old" \o ToString(k), email |-> EmailList[k],
         passwordHash |-> hashPassword("Secret123", "s0")] :
          k \in 1 .. Len(EmailList)}

\* What the reads of an invocation have returned.
ReadValues(p) == {proc[p].result, proc[p].existing} \ {Null}

\* C15: whatever findById or findByEmail has returned (to an outside caller, to
\* saveUser, to createUser's read-back) is null or a User with exactly the
\* fields id, email, passwordHash, all three as one accepted write wrote them,
\* and it matches the key asked for.
C15_ReadersSeeWholeWrites ==
  \A p \in Procs :
    \A v \in ReadValues(p) :
      /\ DOMAIN v = {"id", "email", "passwordHash"}
      /\ v \in WrittenUsers
      /\ proc[p].op = "findByEmail" => v.email = proc[p].key
      /\ proc[p].op # "findByEmail" => v.id = proc[p].id

\* A reader called after an accepted write has returned the user it wrote.
C15_Witness ==
  \E w, p \in Procs :
    /\ WriteSucceeded(w) /\ w < p
    /\ proc[p].op \in {"findById", "findByEmail"}
    /\ proc[p].pc = "done"
    /\ proc[p].result = proc[w].user

(* ------------------------------- C16 ---------------------------------- *)

\* The hash of createUser p has settled without a value.
HashFailed(p) ==
  /\ proc[p].op = "createUser"
  /\ proc[p].pc # "hash"
  /\ proc[p].user = Null

\* C16: a createUser whose hashPassword failed has failed with the error of the
\* hash, has run no statement of saveUser and no read-back, and has written no
\* row.
C16_HashFailureStops ==
  \A p \in Procs :
    HashFailed(p) =>
      /\ proc[p].pc = "failed"
      /\ proc[p].error = HashingFailure
      /\ proc[p].log = <<"hash">>
      /\ proc[p].existing = Null /\ proc[p].result = Null
      /\ RowsWithId(proc[p].id) = {}

\* A createUser's hash has failed and another invocation has written since.
C16_Witness ==
  \E p, q \in Procs :
    /\ HashFailed(p) /\ proc[p].pc = "failed"
    /\ p < q /\ WriteSucceeded(q)

(* ------------------------------- C17 ---------------------------------- *)

\* C17: no step of a createUser removes or changes a row of the table, and a
\* step at which it fails leaves the table as it is.
C17_CreateKeepsExistingRows ==
  [][\A p \in Procs :
       (proc'[p].op = "createUser" /\ proc'[p] # proc[p]) =>
         /\ users \subseteq users'
         /\ proc'[p].pc = "failed" => users' = users
    ]_vars

\* After a createUser was rejected for its email, findByEmail has returned the
\* user who held the email before.
C17_Witness ==
  \E p, q \in Procs :
    /\ FailedForDuplicateEmail(p)
    /\ p < q
    /\ proc[q].op = "findByEmail" /\ proc[q].pc = "done"
    /\ proc[q].key = proc[p].params.email
    /\ proc[q].result \in WrittenUsers
    /\ proc[q].result.id # proc[p].id

(* ------------------------------- C18 ---------------------------------- *)

\* C18: the table changes only at a write statement of saveUser, by at most one
\* row (one row added, or one row replaced); findById and findByEmail, called
\* from outside or inside the core, leave it as it is.
C18_OnlySaveUserWrites ==
  [][/\ users' # users =>
          /\ \E p \in Procs :
               /\ proc[p].pc \in {"save_insert", "save_update"}
               /\ proc'[p] # proc[p]
          /\ Cardinality(users \ users') <= 1
          /\ Cardinality(users' \ users) <= 1
          /\ Cardinality(users') >= Cardinality(users)
     /\ \A p \in Procs :
          \/ proc[p].pc = "idle" /\ proc'[p].op \in {"findById", "findByEmail"}
          \/ Steps(p, "save_find")
          \/ Steps(p, "readback")
          => users' = users
    ]_vars

\* A saveUser has replaced a row, and a reader has returned a row.
C18_Witness ==
  \E p, q \in Procs :
    /\ proc[p].op = "saveUser" /\ proc[p].pc = "done" /\ Last(proc[p].log) = "update"
    /\ proc[q].op \in {"findById", "findByEmail"} /\ proc[q].pc = "done"
    /\ proc[q].result # Null

(* --------------------------- HTTP application ------------------------- *)

\* Requests: a method, a url (the path, an optional trailing slash, an optional
\* query string) and a body: none, well-formed JSON, or JSON that does not parse.
Methods == {"GET", "HEAD", "POST", "OPTIONS"}

Queries == {"?v=1"}

Urls ==
  {<<"/health">>, <<"/HEALTH", "/">>, <<"/api">>, <<"/api", "?v=1">>,
   <<"/non-existent-route">>}

Bodies == {"none", "json", "malformed"}

Requests == [method : Methods, url : Urls, body : Bodies]

\* NODE_ENV of the process that serves the requests.
NodeEnv == "test"

\* req.path: the url without its query string.
Pathname(url) ==
  IF Last(url) \in Queries THEN SubSeq(url, 1, Len(url) - 1) ELSE url

\* Lower case of a path segment.
LowerCase(segment) ==
  CASE segment = "/HEALTH" -> "/health"
    [] OTHER -> segment

\* A route path matches the way express matches by default: without regard to
\* case, and with or without one trailing slash.
RouteMatches(route, url) ==
  LET path == Pathname(url)
      stem == IF Len(path) > 1 /\ Last(path) = "/"
              THEN SubSeq(path, 1, Len(path) - 1) ELSE path
  IN  Len(stem) = 1 /\ LowerCase(stem[1]) = route

\* app.get(path, ...) answers GET, and HEAD when no handler for HEAD exists.
HealthRoute(req) ==
  req.method \in {"GET", "HEAD"} /\ RouteMatches("/health", req.url)

\* Variant: the route is registered for every method (app.all).
ApiRouteAnyMethod(req) == RouteMatches("/api", req.url)

ApiRoute(req) ==
  req.method \in {"GET", "HEAD"} /\ RouteMatches("/api", req.url)

Environment(nodeEnv) == IF nodeEnv = "" THEN "development" ELSE nodeEnv

HealthBody(nodeEnv) ==
  [status |-> "ok", timestamp |-> "iso-8601", environment |-> Environment(nodeEnv)]

ApiBody ==
  [message |-> "Construction Manager API", version |-> "1.0.0",
   endpoints |-> [health |-> "/health", api |-> "/api"]]

\* `Route ${req.method} ${req.url} not found`
NotFoundBody(req) ==
  [error |-> "Not Found",
   message |-> <<"Route", req.method>> \o req.url \o <<"not found">>]

\* The page of express's own error handler for a body that does not parse.
BadRequestPage == [page |-> "Bad Request"]

\* A response as it is sent: the answer to a HEAD request carries no body.
Send(req, status, body, passed) ==
  [status |-> status,
   body |-> IF req.method = "HEAD" THEN Null ELSE body,
   passed |-> passed]

\* The middleware and the routes in the order app.ts registers them: cors ends
\* every OPTIONS request with 204; express.json hands a body that does not parse
\* to the error handler (400); then the two routes; then the 404 handler.
Respond(req) ==
  IF req.method = "OPTIONS"
  THEN [status |-> 204, body |-> Null, passed |-> <<"helmet", "cors">>]
  ELSE IF req.body = "malformed"
  THEN Send(req, 400, BadRequestPage, <<"helmet", "cors", "morgan", "json">>)
  ELSE IF HealthRoute(req)
  THEN Send(req, 200, HealthBody(NodeEnv),
            <<"helmet", "cors", "morgan", "json", "urlencoded", "/health">>)
  ELSE IF ApiRoute(req)
  THEN Send(req, 200, ApiBody,
            <<"helmet", "cors", "morgan", "json", "urlencoded", "/api">>)
  ELSE Send(req, 404, NotFoundBody(req),
            <<"helmet", "cors", "morgan", "json", "urlencoded", "404">>)

\* One request is answered; the application touches no table.
HandleRequest(p, req) ==
  /\ NextToCall(p)
  /\ LET res == Respond(req) IN
       proc' = [proc EXCEPT ![p] =
         [Idle EXCEPT !.op = "http", !.pc = "done", !.params = req,
                      !.result = [status |-> res.status, body |-> res.body],
                      !.log = res.passed]]
  /\ UNCHANGED users

NextHttp == \E p \in Procs, req \in Requests : HandleRequest(p, req)

SpecHttp == Init /\ [][NextHttp]_vars

(* ------------------------------- C19 ---------------------------------- *)

Answered(p) == proc[p].op = "http" /\ proc[p].pc = "done"

\* The request is GET on exactly the path.
IsGet(req, path) == req.method = "GET" /\ Pathname(req.url) = <<path>>

\* C19 as stated: every answered request is answered 200 when it is GET /health
\* or GET /api, and otherwise 404 with error 'Not Found' and the message
\* 'Route <METHOD> <url> not found' of its method and url.
C19_UnroutedIs404RoutedIs200 ==
  \A p \in Procs :
    Answered(p) =>
      LET req == proc[p].params IN
      IF IsGet(req, "/health") \/ IsGet(req, "/api")
      THEN proc[p].result.status = 200
      ELSE /\ proc[p].result.status = 404
           /\ proc[p].result.body =
                [error |-> "Not Found",
                 message |-> <<"Route", req.method>> \o req.url \o <<"not found">>]

\* The request is neither HEAD nor OPTIONS and its body, if any, parses.
Plain(req) == req.method \notin {"HEAD", "OPTIONS"} /\ req.body # "malformed"

\* C19 amended: a request that is neither HEAD nor OPTIONS and whose body parses
\* is answered 200 when it is GET of a path that matches /health or /api (any
\* case, optional trailing slash, any query string), and otherwise 404 with
\* error 'Not Found' and the message 'Route <METHOD> <url> not found'.
C19_PlainRequestsRoutedOrNotFound ==
  \A p \in Procs :
    (Answered(p) /\ Plain(proc[p].params)) =>
      LET req == proc[p].params IN
      IF req.method = "GET"
         /\ (RouteMatches("/health", req.url) \/ RouteMatches("/api", req.url))
      THEN proc[p].result.status = 200
      ELSE /\ proc[p].result.status = 404
           /\ proc[p].result.body =
                [error |-> "Not Found",
                 message |-> <<"Route", req.method>> \o req.url \o <<"not found">>]

\* POST /api with a JSON body was answered 404 with its message, and
\* GET /health was answered 200.
C19_Witness ==
  \E p, q \in Procs :
    /\ Answered(p) /\ Answered(q)
    /\ proc[p].params = [method |-> "POST", url |-> <<"/api">>, body |-> "json"]
    /\ proc[p].result.status = 404
    /\ proc[p].result.body.message = <<"Route", "POST", "/api", "not found">>
    /\ proc[q].params = [method |-> "GET", url |-> <<"/health">>, body |-> "none"]
    /\ proc[q].result.status = 200
    /\ proc[q].result.body.status = "ok"

(* ------------------------------- C20 ---------------------------------- *)

\* saveUser calls p and q wrote for the same id, and the findById of each
\* found the id absent.
BothFoundAbsent(p, q) ==
  /\ p # q
  /\ proc[p].op = "saveUser" /\ proc[q].op = "saveUser"
  /\ proc[p].id = proc[q].id
  /\ proc[p].existing = Null /\ proc[q].existing = Null
  /\ Finished(p) /\ Finished(q)
  /\ ~Faulted(p) /\ ~Faulted(q)
  /\ ~IsEmailViolation(proc[p].dbErr) /\ ~IsEmailViolation(proc[q].dbErr)

\* C20: two saveUser calls for one id that was absent when each looked it up
\* (no outage, no conflict of email) both complete without error, and the table
\* ends with exactly one row for the id, holding the user of one of the two.
C20_AtomicUpsertById ==
  \A p, q \in Procs :
    BothFoundAbsent(p, q) =>
      /\ proc[p].pc = "done" /\ proc[q].pc = "done"
      /\ \E r \in users :
           /\ RowsWithId(proc[p].id) = {r}
           /\ tableRowToUser(r) \in {proc[p].user, proc[q].user}

(* ------------------------------- C21 ---------------------------------- *)

\* The read-back of createUser p has run and the store answered it.
ReadBackAnswered(p) ==
  /\ proc[p].log # <<>> /\ Last(proc[p].log) = "readback"
  /\ proc[p].dbErr # ConnectionError

\* C21: with no delete on the store and a fresh identifier per invocation, no
\* createUser fails with 'Failed to create user', whatever createUser and
\* saveUser calls run beside it: once saveUser has returned inside createUser a
\* row with its identifier exists, and the read-back the store answers returns
\* a row with that identifier.
C21_VerificationNeverFails ==
  \A p \in CreateCalls :
    /\ proc[p].error # FailedToCreateUser
    /\ proc[p].pc = "readback" => RowsWithId(proc[p].id) # {}
    /\ ReadBackAnswered(p) =>
         /\ proc[p].pc = "done"
         /\ proc[p].result # Null
         /\ proc[p].result.id = proc[p].id

\* A createUser has returned the row of its identifier after a saveUser, run
\* between its write and its read-back, had given the row another email.
C21_Witness ==
  \E p \in CreateCalls, q \in Procs :
    /\ proc[p].pc = "done"
    /\ proc[q].op = "saveUser" /\ proc[q].pc = "done"
    /\ proc[q].user.id = proc[p].id
    /\ proc[p].result.id = proc[p].id
    /\ proc[p].result.email # proc[p].params.email

(* ------------------------------- C22 ---------------------------------- *)

\* The run consists of createUser invocations only, all settled, on a table
\* that was empty at the start (rows are never removed, so no row of an earlier
\* request is in it).
OnlyCreatesSettled ==
  /\ \A p \in Procs : proc[p].op \in {"createUser", "none"}
  /\ \A p \in CreateCalls : Finished(p)
  /\ \A r \in users, k \in 1 .. Len(EmailList) : r.id # "id-old" \o ToString(k)

\* C22: after createUser invocations on an initially empty table, the table has
\* as many rows as invocations returned a User: each invocation that returned
\* has exactly one row with its identifier, each that failed has none, and none
\* took the update branch of saveUser.
C22_RowsEqualReturned ==
  OnlyCreatesSettled =>
    /\ Cardinality(users) = Cardinality(Returned)
    /\ \A p \in CreateCalls :
         /\ proc[p].pc = "done" => Cardinality(RowsWithId(proc[p].id)) = 1
         /\ proc[p].pc = "failed" => RowsWithId(proc[p].id) = {}
         /\ Count(proc[p].log, {"update"}) = 0

\* The same, for runs in which the store answered every read-back.
C22_RowsEqualReturnedIfReadBackAnswered ==
  (OnlyCreatesSettled
     /\ \A p \in CreateCalls :
          ~(Last(proc[p].log) = "readback" /\ proc[p].dbErr = ConnectionError)) =>
    /\ Cardinality(users) = Cardinality(Returned)
    /\ \A p \in CreateCalls :
         /\ proc[p].pc = "done" => Cardinality(RowsWithId(proc[p].id)) = 1
         /\ proc[p].pc = "failed" => RowsWithId(proc[p].id) = {}
         /\ Count(proc[p].log, {"update"}) = 0

====
